---- MODULE Spec2Model ----
(***************************************************************************)
(* Model of the Wealth Trends backend (src/api/main.py): the FastAPI       *)
(* handlers google_trends and reddit_trends behind verify_api_key, the     *)
(* pytrends / Reddit data sources and the Supabase "trends" table.         *)
(*                                                                         *)
(* src/main.py and src/api/index.py are earlier copies of the same         *)
(* service; both use Depends without importing it, so they raise           *)
(* NameError while the module is loaded and serve no request.  The         *)
(* handlers modelled here are those of src/api/main.py.                    *)
(*                                                                         *)
(* Sync FastAPI handlers run on a thread pool, so requests interleave;     *)
(* each handler is cut at its outbound calls (data source, sink).  The     *)
(* root and /api/health handlers read no request data and change nothing.  *)
(***************************************************************************)
EXTENDS Integers, Sequences, FiniteSets, TLC

(* ------------------------------ state --------------------------------- *)

VARIABLES
    env,        \* os.getenv("API_KEY")
    sortTies,   \* the tie-breaking policy of this process's sort
    pc,         \* where each request is
    req,        \* platform, query and api_key of each request
    fetched,    \* google: interest / related / regions as returned
    raw,        \* the handler's raw
    analysis,   \* the handler's analysis
    analysed,   \* analysis[r] has been computed
    response,   \* what the caller got
    failure,    \* why the request failed, if it did
    srcCalls,   \* data-source calls issued by the request
    inserts,    \* inserts attempted by the request
    trends,     \* the rows of the "trends" table
    now         \* pd.Timestamp.now()

vars == <<env, sortTies, pc, req, fetched, raw, analysis, analysed, response,
          failure, srcCalls, inserts, trends, now>>

(* ------------------------------ bounds -------------------------------- *)

\* requests the model follows (they may all be in flight at once)
MaxReq == 2
\* longest Reddit listing handed to the analysis step on its own
MaxPosts == 6
\* widest Google interest-over-time frame handed to the analysis step
MaxCols == 6

(* ------------------------- program constants -------------------------- *)

\* .head(5) and [:5]
TopN == 5

Reqs == 1 .. MaxReq

(* ------------------------------ helpers ------------------------------- *)

Min(a, b) == IF a <= b THEN a ELSE b

\* s[:n] / .head(n)
Head_n(s, n) == SubSeq(s, 1, Min(n, Len(s)))

RemoveAt(s, i) == SubSeq(s, 1, i - 1) \o SubSeq(s, i + 1, Len(s))

SeqsUpTo(S, n) == UNION {[1 .. k -> S] : k \in 0 .. n}

RECURSIVE Concat(_)
Concat(ss) == IF ss = <<>> THEN <<>> ELSE Head(ss) \o Concat(Tail(ss))

RECURSIVE GCD(_, _)
GCD(a, b) == IF b = 0 THEN a ELSE GCD(b, a % b)

Abs(x) == IF x < 0 THEN -x ELSE x

(***************************************************************************)
(* pandas sort_values(..., ascending=False) uses kind="quicksort", which   *)
(* is not stable: the order of equal keys depends on the numpy build.  It  *)
(* is a fixed function of the input for one build, so a process keeps one  *)
(* tie-breaking policy, chosen when it starts.  An element's rank is the    *)
(* number of elements that sort strictly before it.                        *)
(***************************************************************************)
TiePolicies == {"first", "last"}

\* index of the element that sorts first, ties by policy
PickTop(rank, policy) ==
    LET tops == {i \in 1 .. Len(rank) : \A j \in 1 .. Len(rank) : rank[j] >= rank[i]}
    IN  IF policy = "first"
        THEN CHOOSE i \in tops : \A j \in tops : i <= j
        ELSE CHOOSE i \in tops : \A j \in tops : i >= j

RECURSIVE SortByRank(_, _, _)
\* s in the order of its ranks
SortByRank(s, rank, policy) ==
    IF s = <<>> THEN <<>>
    ELSE LET i == PickTop(rank, policy)
         IN  <<s[i]>> \o SortByRank(RemoveAt(s, i), RemoveAt(rank, i), policy)

(* ------------------------- Reddit analysis ---------------------------- *)

(***************************************************************************)
(* A post is the "data" object of one child of the listing.  Text is a     *)
(* sequence of whitespace-separated words; a post may lack fields.         *)
(***************************************************************************)
PostColumns == {"title", "score", "num_comments", "created_utc"}

\* str.lower() on one word
Lower(w) ==
    CASE w = "AI" -> "ai"
      [] w = "Boom" -> "boom"
      [] OTHER -> w

LowerAll(ws) == [i \in 1 .. Len(ws) |-> Lower(ws[i])]

\* df[["title", "score", "num_comments", "created_utc"]] raises KeyError
\* when no post supplies a column; df["selftext"] likewise.  (A post that
\* lacks a column others have gets NaN there; the listings followed here
\* hold posts of one shape.)
HasColumns(posts) ==
    \A c \in PostColumns \cup {"selftext"} :
        \E i \in 1 .. Len(posts) : c \in DOMAIN posts[i]

Project(p) ==
    [title |-> p.title, score |-> p.score,
     num_comments |-> p.num_comments, created_utc |-> p.created_utc]

\* ranks for sort_values("score", ascending=False)
ScoreRank(posts) ==
    [i \in 1 .. Len(posts) |->
        Cardinality({j \in 1 .. Len(posts) : posts[j].score > posts[i].score})]

top_posts_wrong_order(posts, policy) ==
    LET up == [i \in 1 .. Len(posts) |->
                 Cardinality({j \in 1 .. Len(posts) : posts[j].score < posts[i].score})]
    IN  Head_n(SortByRank([i \in 1 .. Len(posts) |-> Project(posts[i])], up, policy),
               TopN)

\* df[[...]].sort_values("score", ascending=False).head(5).to_dict("records")
top_posts_of(posts, policy) ==
    Head_n(SortByRank([i \in 1 .. Len(posts) |-> Project(posts[i])],
                      ScoreRank(posts), policy),
           TopN)

\* " ".join(df["title"].fillna("") + " " + df["selftext"].fillna("")),
\* then .lower().split()
all_words(posts) ==
    LowerAll(Concat([i \in 1 .. Len(posts) |-> posts[i].title \o posts[i].selftext]))

RECURSIVE Distinct(_)
\* the distinct words in order of first appearance
Distinct(ws) ==
    IF ws = <<>> THEN <<>>
    ELSE LET rest == Distinct(SubSeq(ws, 1, Len(ws) - 1))
             w == ws[Len(ws)]
         IN  IF \E i \in 1 .. Len(rest) : rest[i] = w THEN rest
             ELSE Append(rest, w)

Count(ws, w) == Cardinality({i \in 1 .. Len(ws) : ws[i] = w})

\* ranks for value_counts(): most frequent first
CountRank(vc) ==
    [i \in 1 .. Len(vc) |->
        Cardinality({j \in 1 .. Len(vc) : vc[j].count > vc[i].count})]

\* words.value_counts().head(5).to_dict(): an ordered word -> count mapping
top_keywords_of(posts, policy) ==
    LET ws == all_words(posts)
        ds == Distinct(ws)
        vc == [i \in 1 .. Len(ds) |-> [word |-> ds[i], count |-> Count(ws, ds[i])]]
    IN  Head_n(SortByRank(vc, CountRank(vc), policy), TopN)

\* the f-string of line 128, kept as its parts
reddit_insights(top_posts) ==
    IF top_posts # <<>>
    THEN <<"Top post: ", top_posts[1].title, top_posts[1].score,
           top_posts[1].num_comments>>
    ELSE <<"No posts">>

RECURSIVE RedditRows(_)
\* the posts of the reddit rows among rows
RedditRows(rows) ==
    IF rows = <<>> THEN <<>>
    ELSE (IF Head(rows).platform = "reddit" THEN Head(rows).raw ELSE <<>>)
            \o RedditRows(Tail(rows))

\* the analysis over a frame that also keeps the posts stored so far
reddit_analysis_accumulating(posts, policy) ==
    LET all == posts \o RedditRows(trends)
        tp == top_posts_of(all, policy)
    IN  [top_posts |-> tp,
         top_keywords |-> top_keywords_of(all, policy),
         insights |-> reddit_insights(tp)]

\* lines 117-129
reddit_analysis(posts, policy) ==
    LET tp == top_posts_of(posts, policy)
    IN  [top_posts |-> tp,
         top_keywords |-> top_keywords_of(posts, policy),
         insights |-> reddit_insights(tp)]

\* the analysis of an empty listing (line 115)
NoResultsAnalysis == [insights |-> <<"No results found">>]

(* ------------------------- Google analysis ---------------------------- *)

(***************************************************************************)
(* interest_over_time().to_dict() is a mapping column -> values; it is     *)
(* kept as a sequence of columns [label, values] in frame order, labels    *)
(* distinct, every column of the same length.  Interest values are         *)
(* naturals and every column is numeric (isPartial as 0/1).  A mean        *)
(* percentage change is NaN, +inf or a fraction n/d in lowest terms with   *)
(* d > 0.                                                                  *)
(***************************************************************************)
NaN == [k |-> "nan", n |-> 0, d |-> 1]
Inf == [k |-> "inf", n |-> 0, d |-> 1]

Frac(n, d) ==
    LET g == GCD(Abs(n), d)
    IN  [k |-> "num", n |-> n \div g, d |-> d \div g]

\* the rows of pct_change() that are finite: (cur - prev) / prev, prev > 0
FiniteRows(v) == {i \in 2 .. Len(v) : v[i - 1] > 0}
\* the rows that are +inf: a rise from 0
InfRows(v) == {i \in 2 .. Len(v) : v[i - 1] = 0 /\ v[i] > 0}

RECURSIVE SumChanges(_, _)
\* the sum of the finite changes among rows 2 .. i, as a fraction
SumChanges(v, i) ==
    IF i < 2 THEN [n |-> 0, d |-> 1]
    ELSE LET s == SumChanges(v, i - 1)
         IN  IF v[i - 1] > 0
             THEN [n |-> s.n * v[i - 1] + (v[i] - v[i - 1]) * s.d,
                   d |-> s.d * v[i - 1]]
             ELSE s

\* df.pct_change().mean() for one column (mean skips NaN)
mean_pct_change(v) ==
    IF InfRows(v) # {} THEN Inf
    ELSE IF FiniteRows(v) = {} THEN NaN
    ELSE LET s == SumChanges(v, Len(v))
         IN  Frac(s.n, s.d * Cardinality(FiniteRows(v)))

\* a > b as numbers; NaN compares greater than nothing
NumGt(a, b) ==
    /\ a.k # "nan" /\ b.k # "nan"
    /\ \/ a.k = "inf" /\ b.k = "num"
       \/ a.k = "num" /\ b.k = "num" /\ a.n * b.d > b.n * a.d

\* the order of sort_values(ascending=False): larger first, NaN last
SortsBefore(a, b) ==
    \/ a.score.k # "nan" /\ b.score.k = "nan"
    \/ NumGt(a.score, b.score)

\* pd.DataFrame(interest).empty: no column or no row
FrameEmpty(interest) ==
    interest = <<>> \/ \A i \in 1 .. Len(interest) : interest[i].values = <<>>

Scored(interest) ==
    [i \in 1 .. Len(interest) |->
        [label |-> interest[i].label, score |-> mean_pct_change(interest[i].values)]]

\* ranks for sort_values(ascending=False) of the means
MeanRank(sc) ==
    [i \in 1 .. Len(sc) |->
        Cardinality({j \in 1 .. Len(sc) : SortsBefore(sc[j], sc[i])})]

rising_ascending(interest, policy) ==
    LET sc == Scored(interest)
        up == [i \in 1 .. Len(sc) |->
                 Cardinality({j \in 1 .. Len(sc) : SortsBefore(sc[i], sc[j])})]
    IN  IF ~FrameEmpty(interest)
        THEN Head_n(SortByRank(sc, up, policy), TopN)
        ELSE <<>>

\* df.pct_change().mean().sort_values(ascending=False).head(5).to_dict(),
\* or {} for an empty frame: an ordered label -> score mapping
rising_of(interest, policy) ==
    IF ~FrameEmpty(interest)
    THEN Head_n(SortByRank(Scored(interest), MeanRank(Scored(interest)), policy), TopN)
    ELSE <<>>

\* a dict with no key
EmptyDict == [x \in {} |-> x]

\* related.get(query, {})
related_for(related, query) ==
    IF query \in DOMAIN related THEN related[query] ELSE EmptyDict

\* an optional list value: None or a list
NoneValue == [kind |-> "None"]
ListValue(items) == [kind |-> "list", items |-> items]

\* .get('top', []) of the entry
top_of(entry) == IF "top" \in DOMAIN entry THEN entry.top ELSE ListValue(<<>>)

\* None[:5] raises TypeError
top_related_raises(entry) == top_of(entry).kind = "None"

top_related_of(entry) == Head_n(top_of(entry).items, TopN)

\* the f-string of line 85, kept as its parts
google_insights(rising) ==
    <<"Top rising: ", IF rising # <<>> THEN rising[1].label ELSE "N/A">>

google_analysis(interest, entry, policy) ==
    LET rising == rising_of(interest, policy)
    IN  [rising_keywords |-> rising,
         top_related |-> top_related_of(entry),
         insights |-> google_insights(rising)]

(* --------------------------- environment ------------------------------ *)

Platforms == {"google", "reddit"}
\* the search term of the requests followed
Queries == {"ai"}
ApiKeys == {"s3cret", "wrong"}

\* os.getenv("API_KEY"): unset, or the configured secret
EnvValues == {[set |-> FALSE, value |-> ""], [set |-> TRUE, value |-> "s3cret"]}

\* Reddit posts: the "data" objects of the listing's children
PostA == [title |-> <<"AI", "Boom">>, score |-> 10, num_comments |-> 1,
          created_utc |-> 1, selftext |-> <<"ai">>]
PostB == [title |-> <<"ml">>, score |-> 50, num_comments |-> 2,
          created_utc |-> 2, selftext |-> <<>>]
PostC == [title |-> <<"boom">>, score |-> 5, num_comments |-> 0,
          created_utc |-> 3, selftext |-> <<"ml", "ml">>]
PostD == [title |-> <<"ai", "ml">>, score |-> 50, num_comments |-> 7,
          created_utc |-> 4, selftext |-> <<"x">>]
\* a post without a score field
PostNoScore == [title |-> <<"ad">>, num_comments |-> 0, created_utc |-> 5,
                selftext |-> <<>>]

PostPool == {PostA, PostB, PostC, PostD}

\* the children of a listing: none, well-formed posts, a post lacking a
\* column, a child lacking "data"
MainListings ==
    {<<>>,
     <<[data |-> PostA]>>,
     <<[data |-> PostA], [data |-> PostB]>>,
     <<[data |-> PostNoScore]>>,
     <<[kind |-> "more"]>>}

\* what response.json() can hold: no "data" key, or a listing
RedditBodies ==
    {[kind |-> "no_data"]} \cup
    {[kind |-> "listing", children |-> c] : c \in MainListings}

\* data.get("data", {}).get("children", [])
children_of(body) == IF body.kind = "listing" THEN body.children ELSE <<>>

\* post["data"] raises KeyError for a child without it
children_raise(posts) == \E i \in 1 .. Len(posts) : "data" \notin DOMAIN posts[i]

\* [post["data"] for post in posts]
raw_of(posts) == [i \in 1 .. Len(posts) |-> posts[i].data]

\* columns of interest-over-time frames, three rows each: mean change
\* NaN, +inf, 1/4 and -1/2
ColPool == {<<0, 0, 0>>, <<0, 1, 1>>, <<1, 2, 1>>, <<4, 2, 1>>}
ColLabels == <<"ai", "isPartial", "k3", "k4", "k5", "k6", "k7", "k8">>

\* interest_over_time().to_dict() for kw_list=[query]
MainFrames(query) ==
    {<<>>} \cup
    {<<[label |-> query, values |-> v], [label |-> "isPartial", values |-> <<0, 1>>]>> :
        v \in {<<1, 2>>}}

\* related_queries(): keyed by keyword; "top" is a list, None or absent
MainRelated(query) ==
    {EmptyDict,
     "ml" :> [top |-> ListValue(<<"r1">>), rising |-> NoneValue],
     query :> [top |-> NoneValue, rising |-> NoneValue],
     query :> [top |-> ListValue(<<"r1", "r2", "r3", "r4", "r5", "r6">>),
               rising |-> NoneValue]}

\* interest_by_region().to_dict()
MainRegions(query) == {query :> [US |-> 100]}

\* the data queries google_trends issues, in order (lines 65-67)
pytrends_calls_repeat ==
    <<"interest_over_time", "related_queries", "interest_by_region", "interest_over_time">>

pytrends_calls == <<"interest_over_time", "related_queries", "interest_by_region">>

(* ----------------------------- responses ------------------------------ *)

NoData == [kind |-> "none"]
NoRequest == [platform |-> "none", query |-> "", api_key |-> ""]
NoResponse == [status |-> 0]

Ok(platform, r, a) ==
    [status |-> 200, body |-> [platform |-> platform, raw |-> r, analysis |-> a]]

\* raise HTTPException(status_code=..., detail=f"{prefix}: {str(e)}")
HttpError(code, prefix, msg) == [status |-> code, detail |-> <<prefix, msg>>]

Init ==
    /\ env \in EnvValues
    /\ sortTies \in TiePolicies
    /\ pc = [r \in Reqs |-> "idle"]
    /\ req = [r \in Reqs |-> NoRequest]
    /\ fetched = [r \in Reqs |-> NoData]
    /\ raw = [r \in Reqs |-> NoData]
    /\ analysis = [r \in Reqs |-> NoData]
    /\ analysed = [r \in Reqs |-> FALSE]
    /\ response = [r \in Reqs |-> NoResponse]
    /\ failure = [r \in Reqs |-> "none"]
    /\ srcCalls = [r \in Reqs |-> 0]
    /\ inserts = [r \in Reqs |-> 0]
    /\ trends = <<>>
    /\ now = 0

(* ---------------------------- authentication -------------------------- *)

verify_api_key_skipped(api_key) ==
    IF ~env.set \/ env.value = "" THEN "RuntimeError" ELSE "ok"

\* verify_api_key: RuntimeError, HTTPException(403) or the key
verify_api_key(api_key) ==
    IF ~env.set \/ env.value = "" THEN "RuntimeError"
    ELSE IF api_key # env.value THEN "forbidden"
    ELSE "ok"

\* a request arrives; FastAPI resolves Depends(verify_api_key) before the
\* handler body runs
Receive(r, platform, query, api_key) ==
    /\ pc[r] = "idle"
    /\ req' = [req EXCEPT ![r] = [platform |-> platform, query |-> query,
                                  api_key |-> api_key]]
    /\ LET v == verify_api_key(api_key)
       IN  CASE v = "RuntimeError" ->
                  /\ pc' = [pc EXCEPT ![r] = "done"]
                  /\ failure' = [failure EXCEPT ![r] = "config"]
                  /\ response' = [response EXCEPT ![r] =
                        HttpError(500, "Internal Server Error", "")]
             [] v = "forbidden" ->
                  /\ pc' = [pc EXCEPT ![r] = "done"]
                  /\ failure' = [failure EXCEPT ![r] = "auth"]
                  /\ response' = [response EXCEPT ![r] =
                        HttpError(403, "Invalid API key", "")]
             [] OTHER ->
                  /\ pc' = [pc EXCEPT ![r] = "fetch"]
                  /\ UNCHANGED <<failure, response>>
    /\ UNCHANGED <<env, sortTies, fetched, raw, analysis, analysed, srcCalls,
                   inserts, trends, now>>

(* ------------------------------ the sink ------------------------------ *)

\* the row both handlers build for supabase.table("trends").insert(...)
TrendRecord(platform, query, r, a, timestamp) ==
    [platform |-> platform, query |-> query, raw |-> r, analysis |-> a,
     timestamp |-> timestamp]

supabase_insert_replacing(rows, record) ==
    IF rows = <<>> THEN <<record>> ELSE [rows EXCEPT ![Len(rows)] = record]

\* .insert(record).execute() when the row is written
supabase_insert(rows, record) == Append(rows, record)

(***************************************************************************)
(* The insert step shared by both handlers: build the row with the current *)
(* time and execute the insert.  It returns normally, or raises because    *)
(* the sink is unreachable (no row written) or because the reply is lost   *)
(* after the row was written.                                              *)
(***************************************************************************)
InsertOutcomes == {"ok", "unreachable", "reply_lost"}

(* --------------------------- google_trends ---------------------------- *)

\* except Exception as e (lines 98-99)
google_except(msg) == HttpError(500, "Google Trends error", msg)

\* lines 63-73: the pytrends session, the three data queries, raw
GoogleFetch(r) ==
    /\ pc[r] = "fetch"
    /\ req[r].platform = "google"
    /\ \/ \E k \in 0 .. Len(pytrends_calls) :
            \* TrendReq() / build_payload (k = 0) or the k-th query raises:
            \* timeout, connection error, non-2xx status
            /\ srcCalls' = [srcCalls EXCEPT ![r] = k]
            /\ pc' = [pc EXCEPT ![r] = "done"]
            /\ failure' = [failure EXCEPT ![r] = "transport"]
            /\ response' = [response EXCEPT ![r] = google_except("transport")]
            /\ UNCHANGED <<fetched, raw>>
       \/ \E interest \in MainFrames(req[r].query),
             related \in MainRelated(req[r].query),
             regions \in MainRegions(req[r].query) :
            /\ srcCalls' = [srcCalls EXCEPT ![r] = Len(pytrends_calls)]
            /\ fetched' = [fetched EXCEPT ![r] =
                  [kind |-> "google", interest |-> interest, related |-> related]]
            /\ raw' = [raw EXCEPT ![r] =
                  [interest_over_time |-> interest,
                   related_queries |-> related_for(related, req[r].query),
                   interest_by_region |-> regions]]
            /\ pc' = [pc EXCEPT ![r] = "analyze"]
            /\ UNCHANGED <<failure, response>>
    /\ UNCHANGED <<env, sortTies, req, analysis, analysed, inserts, trends, now>>

\* lines 76-86: rising, analysis
GoogleAnalyze(r) ==
    /\ pc[r] = "analyze"
    /\ req[r].platform = "google"
    /\ LET entry == related_for(fetched[r].related, req[r].query)
       IN  IF top_related_raises(entry)
           THEN /\ pc' = [pc EXCEPT ![r] = "done"]
                /\ failure' = [failure EXCEPT ![r] = "malformed"]
                /\ response' = [response EXCEPT ![r] = google_except("TypeError")]
                /\ fetched' = [fetched EXCEPT ![r] = NoData]
                /\ raw' = [raw EXCEPT ![r] = NoData]
                /\ UNCHANGED <<analysis, analysed>>
           ELSE /\ analysis' = [analysis EXCEPT ![r] =
                      google_analysis(fetched[r].interest, entry, sortTies)]
                /\ analysed' = [analysed EXCEPT ![r] = TRUE]
                /\ fetched' = [fetched EXCEPT ![r] = NoData]
                /\ pc' = [pc EXCEPT ![r] = "insert"]
                /\ UNCHANGED <<raw, failure, response>>
    /\ UNCHANGED <<env, sortTies, req, srcCalls, inserts, trends, now>>

\* lines 88-97: insert, then return
GoogleInsert(r) ==
    /\ pc[r] = "insert"
    /\ req[r].platform = "google"
    /\ inserts' = [inserts EXCEPT ![r] = @ + 1]
    /\ now' = now + 1
    /\ pc' = [pc EXCEPT ![r] = "done"]
    /\ \E outcome \in InsertOutcomes :
         LET record == TrendRecord("google", req[r].query, raw[r], analysis[r], now)
         IN  /\ trends' = IF outcome = "unreachable" THEN trends
                          ELSE supabase_insert(trends, record)
             /\ IF outcome = "ok"
                THEN /\ response' = [response EXCEPT ![r] =
                           Ok("google", raw[r], analysis[r])]
                     /\ UNCHANGED failure
                ELSE /\ response' = [response EXCEPT ![r] = google_except(outcome)]
                     /\ failure' = [failure EXCEPT ![r] = "sink"]
    /\ UNCHANGED <<env, sortTies, req, fetched, raw, analysis, analysed, srcCalls>>

(* --------------------------- reddit_trends ---------------------------- *)

\* the except clauses of lines 141-144, by the class of the exception
reddit_except(class, msg) ==
    IF class = "RequestException"
    THEN HttpError(500, "Reddit request failed", msg)
    ELSE HttpError(500, "Reddit processing error", msg)

\* requests.get calls issued by one pass through line 107
reddit_gets(outcome) == 1

(***************************************************************************)
(* lines 105-112.  requests.get raises (timeout, connection) or            *)
(* raise_for_status raises (non-2xx): both RequestException.               *)
(* response.json() raises on a body that is not JSON: a RequestException   *)
(* subclass in requests >= 2.27, a plain ValueError before.  A child       *)
(* without "data" raises KeyError.                                         *)
(***************************************************************************)
RedditFetch(r) ==
    /\ pc[r] = "fetch"
    /\ req[r].platform = "reddit"
    /\ \/ \E outcome \in {"timeout", "http_error"} :
            /\ srcCalls' = [srcCalls EXCEPT ![r] = @ + reddit_gets(outcome)]
            /\ pc' = [pc EXCEPT ![r] = "done"]
            /\ failure' = [failure EXCEPT ![r] = "transport"]
            /\ response' = [response EXCEPT ![r] =
                  reddit_except("RequestException", outcome)]
            /\ UNCHANGED raw
       \/ \E class \in {"RequestException", "Exception"} :
            /\ srcCalls' = [srcCalls EXCEPT ![r] = @ + reddit_gets("not_json")]
            /\ pc' = [pc EXCEPT ![r] = "done"]
            /\ failure' = [failure EXCEPT ![r] = "malformed"]
            /\ response' = [response EXCEPT ![r] = reddit_except(class, "not_json")]
            /\ UNCHANGED raw
       \/ \E body \in RedditBodies :
            /\ srcCalls' = [srcCalls EXCEPT ![r] = @ + reddit_gets("ok")]
            /\ IF children_raise(children_of(body))
               THEN /\ pc' = [pc EXCEPT ![r] = "done"]
                    /\ failure' = [failure EXCEPT ![r] = "malformed"]
                    /\ response' = [response EXCEPT ![r] =
                          reddit_except("Exception", "KeyError")]
                    /\ UNCHANGED raw
               ELSE /\ raw' = [raw EXCEPT ![r] = raw_of(children_of(body))]
                    /\ pc' = [pc EXCEPT ![r] = "analyze"]
                    /\ UNCHANGED <<failure, response>>
    /\ UNCHANGED <<env, sortTies, req, fetched, analysis, analysed, inserts,
                   trends, now>>

\* lines 114-129: the empty listing returns at once; else top_posts,
\* top_keywords, analysis
RedditAnalyze(r) ==
    /\ pc[r] = "analyze"
    /\ req[r].platform = "reddit"
    /\ CASE raw[r] = <<>> ->
              /\ pc' = [pc EXCEPT ![r] = "done"]
              /\ response' = [response EXCEPT ![r] =
                    Ok("reddit", <<>>, NoResultsAnalysis)]
              /\ UNCHANGED <<raw, analysis, analysed, failure>>
         [] raw[r] # <<>> /\ ~HasColumns(raw[r]) ->
              /\ pc' = [pc EXCEPT ![r] = "done"]
              /\ failure' = [failure EXCEPT ![r] = "malformed"]
              /\ response' = [response EXCEPT ![r] =
                    reddit_except("Exception", "KeyError")]
              /\ raw' = [raw EXCEPT ![r] = NoData]
              /\ UNCHANGED <<analysis, analysed>>
         [] OTHER ->
              /\ analysis' = [analysis EXCEPT ![r] = reddit_analysis(raw[r], sortTies)]
              /\ analysed' = [analysed EXCEPT ![r] = TRUE]
              /\ pc' = [pc EXCEPT ![r] = "insert"]
              /\ UNCHANGED <<raw, failure, response>>
    /\ UNCHANGED <<env, sortTies, req, fetched, srcCalls, inserts, trends, now>>

\* lines 131-140: insert, then return
RedditInsert(r) ==
    /\ pc[r] = "insert"
    /\ req[r].platform = "reddit"
    /\ inserts' = [inserts EXCEPT ![r] = @ + 1]
    /\ now' = now + 1
    /\ pc' = [pc EXCEPT ![r] = "done"]
    /\ \E outcome \in InsertOutcomes :
         LET record == TrendRecord("reddit", req[r].query, raw[r], analysis[r], now)
         IN  /\ trends' = IF outcome = "unreachable" THEN trends
                          ELSE supabase_insert(trends, record)
             /\ IF outcome = "ok"
                THEN /\ response' = [response EXCEPT ![r] =
                           Ok("reddit", raw[r], analysis[r])]
                     /\ UNCHANGED failure
                ELSE /\ response' = [response EXCEPT ![r] =
                           reddit_except("Exception", outcome)]
                     /\ failure' = [failure EXCEPT ![r] = "sink"]
    /\ UNCHANGED <<env, sortTies, req, fetched, raw, analysis, analysed, srcCalls>>

(* --------------------------- specifications --------------------------- *)

Next ==
    \E r \in Reqs :
        \/ \E platform \in Platforms, query \in Queries, api_key \in ApiKeys :
              Receive(r, platform, query, api_key)
        \/ GoogleFetch(r)
        \/ GoogleAnalyze(r)
        \/ GoogleInsert(r)
        \/ RedditFetch(r)
        \/ RedditAnalyze(r)
        \/ RedditInsert(r)

Spec == Init /\ [][Next]_vars

(***************************************************************************)
(* The analysis steps on their own: one request that has fetched, with the *)
(* data source's answer drawn from a wider set than Spec follows.          *)
(***************************************************************************)
Fetched(platform, r1raw, r1fetched, calls) ==
    /\ env = [set |-> TRUE, value |-> "s3cret"]
    /\ sortTies \in TiePolicies
    /\ pc = [r \in Reqs |-> IF r = 1 THEN "analyze" ELSE "idle"]
    /\ req = [r \in Reqs |->
                IF r = 1 THEN [platform |-> platform, query |-> "ai",
                               api_key |-> "s3cret"]
                ELSE NoRequest]
    /\ fetched = [r \in Reqs |-> IF r = 1 THEN r1fetched ELSE NoData]
    /\ raw = [r \in Reqs |-> IF r = 1 THEN r1raw ELSE NoData]
    /\ analysis = [r \in Reqs |-> NoData]
    /\ analysed = [r \in Reqs |-> FALSE]
    /\ response = [r \in Reqs |-> NoResponse]
    /\ failure = [r \in Reqs |-> "none"]
    /\ srcCalls = [r \in Reqs |-> IF r = 1 THEN calls ELSE 0]
    /\ inserts = [r \in Reqs |-> 0]
    /\ trends = <<>>
    /\ now = 0

InitReddit ==
    \E posts \in SeqsUpTo(PostPool, MaxPosts) :
        /\ posts # <<>>
        /\ Fetched("reddit", posts, NoData, reddit_gets("ok"))

NextReddit == \E r \in Reqs : RedditAnalyze(r) \/ RedditInsert(r)

SpecReddit == InitReddit /\ [][NextReddit]_vars

\* frames of n columns drawn from ColPool, labelled in frame order
FramesOf(n) ==
    {[i \in 1 .. n |-> [label |-> ColLabels[i], values |-> cols[i]]] :
        cols \in [1 .. n -> ColPool]}

InitGoogle ==
    \E n \in 0 .. Min(MaxCols, Len(ColLabels)) : \E interest \in FramesOf(n) :
        LET related == "ai" :> [top |-> ListValue(<<"r1", "r2">>), rising |-> NoneValue]
        IN  Fetched("google",
                    [interest_over_time |-> interest,
                     related_queries |-> related_for(related, "ai"),
                     interest_by_region |-> "ai" :> [US |-> 100]],
                    [kind |-> "google", interest |-> interest, related |-> related],
                    Len(pytrends_calls))

NextGoogle == \E r \in Reqs : GoogleAnalyze(r) \/ GoogleInsert(r)

SpecGoogle == InitGoogle /\ [][NextGoogle]_vars

(* ============================ properties ============================== *)

Done(r) == pc[r] = "done"
Success(r) == Done(r) /\ response[r].status = 200
Range(q) == {q[i] : i \in 1 .. Len(q)}

\* the row a request's insert step writes, whatever its timestamp
RowOf(row, r) ==
    /\ row.platform = req[r].platform
    /\ row.query = req[r].query
    /\ row.raw = raw[r]
    /\ row.analysis = analysis[r]

(* C1: on both endpoints a request whose api_key differs from the          *)
(* configured secret ends with 403 "Invalid API key", and that request     *)
(* never calls its data source and never inserts into the sink.            *)
C1_InvalidKeyRejected ==
    \A r \in Reqs :
        (pc[r] # "idle" /\ env.set /\ env.value # "" /\ req[r].api_key # env.value)
        => /\ Done(r)
           /\ response[r] = [status |-> 403, detail |-> <<"Invalid API key", "">>]
           /\ srcCalls[r] = 0
           /\ inserts[r] = 0

C1_Witness ==
    \E r, o \in Reqs :
        /\ Done(r) /\ req[r].api_key = "wrong" /\ response[r].status = 403
        /\ req[r].platform = "google"
        /\ Done(o) /\ req[o].api_key = "wrong" /\ req[o].platform = "reddit"

(* C2: when fetch and analysis succeeded and only the insert into the sink *)
(* failed, the caller still gets the success response                      *)
(* {platform, raw, analysis}.                                              *)
C2_BestEffortPersistence ==
    \A r \in Reqs :
        (Done(r) /\ analysed[r] /\ failure[r] = "sink")
        => response[r] = Ok(req[r].platform, raw[r], analysis[r])

(* C3, as stated: every invocation makes at most one data-source call and  *)
(* at most one insert.                                                     *)
C3_AtMostOneCallEach ==
    \A r \in Reqs : srcCalls[r] <= 1 /\ inserts[r] <= 1

(* C3, amended: every invocation makes at most one insert; a reddit        *)
(* invocation makes at most one data-source call, a google invocation at   *)
(* most three (interest_over_time, related_queries, interest_by_region).   *)
C3_CallBounds ==
    \A r \in Reqs :
        /\ inserts[r] <= 1
        /\ req[r].platform = "reddit" => srcCalls[r] <= 1
        /\ req[r].platform = "google" => srcCalls[r] <= 3
        /\ req[r].platform = "none" => srcCalls[r] = 0 /\ inserts[r] = 0

C3_Witness ==
    \E r, o \in Reqs :
        /\ Success(r) /\ req[r].platform = "google"
        /\ srcCalls[r] = 3 /\ inserts[r] = 1
        /\ Done(o) /\ req[o].platform = "reddit" /\ srcCalls[o] = 1 /\ inserts[o] = 1

(* C4: every request that ends in a success response, the empty-result     *)
(* outcomes included, has attempted exactly one insert of a row whose      *)
(* platform, query, raw and analysis are those of the request and of its   *)
(* response.                                                               *)
C4_SuccessImpliesOneInsert ==
    \A r \in Reqs :
        Success(r)
        => /\ inserts[r] = 1
           /\ \E i \in 1 .. Len(trends) :
                /\ trends[i].platform = response[r].body.platform
                /\ trends[i].platform = req[r].platform
                /\ trends[i].query = req[r].query
                /\ trends[i].raw = response[r].body.raw
                /\ trends[i].analysis = response[r].body.analysis

\* how the caller can classify an error envelope by its detail
ErrorKind(resp) ==
    CASE resp.detail[1] = "Reddit request failed" -> "fetch failed"
      [] resp.detail[1] = "Reddit processing error" -> "processing failed"
      [] OTHER -> "unclassified"

\* the platform the detail names
PlatformNamed(resp) ==
    CASE resp.detail[1] \in {"Reddit request failed", "Reddit processing error"} -> "reddit"
      [] resp.detail[1] = "Google Trends error" -> "google"
      [] OTHER -> "none"

(* C5: on both platforms a transport failure of the data-source call gives *)
(* a "fetch failed" error and any other failure of fetch or analysis a     *)
(* distinct "processing failed" error, both naming the platform, with      *)
(* status 500 and no raw or analysis in the response.                      *)
C5_ErrorTaxonomy ==
    \A r \in Reqs :
        (Done(r) /\ failure[r] \in {"transport", "malformed"})
        => /\ response[r].status = 500
           /\ "body" \notin DOMAIN response[r]
           /\ PlatformNamed(response[r]) = req[r].platform
           /\ failure[r] = "transport" => ErrorKind(response[r]) = "fetch failed"
           /\ failure[r] = "malformed" => ErrorKind(response[r]) = "processing failed"

MaxScore(posts) ==
    CHOOSE m \in {posts[i].score : i \in 1 .. Len(posts)} :
        \A i \in 1 .. Len(posts) : posts[i].score <= m

(* C6: for every non-empty list of Reddit posts, top_posts is sorted by    *)
(* score descending, has min(5, number of posts) entries, holds the        *)
(* highest-scoring posts, and the insight names the title, score and       *)
(* comment count of the highest-scoring post.                              *)
C6_TopPosts ==
    \A r \in Reqs :
        (analysed[r] /\ req[r].platform = "reddit")
        => LET tp == analysis[r].top_posts
               n == Len(raw[r])
           IN  /\ Len(tp) = IF n < 5 THEN n ELSE 5
               /\ \A i, j \in 1 .. Len(tp) : i < j => tp[i].score >= tp[j].score
               /\ \A i \in 1 .. Len(tp) : \E k \in 1 .. n : tp[i] = Project(raw[r][k])
               /\ \A k \in 1 .. n :
                    raw[r][k].score > tp[Len(tp)].score
                    => Project(raw[r][k]) \in Range(tp)
               /\ tp[1].score = MaxScore(raw[r])
               /\ analysis[r].insights =
                    <<"Top post: ", tp[1].title, tp[1].score, tp[1].num_comments>>

C6_Witness ==
    \E r \in Reqs :
        /\ analysed[r] /\ req[r].platform = "reddit"
        /\ Len(raw[r]) > 5
        /\ SubSeq(raw[r], 1, 3) = <<PostA, PostB, PostC>>
        /\ analysis[r].insights[2] = PostB.title

(* C7: for every Google interest-over-time frame with at least one column  *)
(* (and one row), rising_keywords has min(5, number of columns) entries,   *)
(* each a column with its mean percentage change, ordered by that mean     *)
(* descending (NaN last), and the insight names the first entry.           *)
C7_RisingKeywords ==
    \A r \in Reqs :
        (analysed[r] /\ req[r].platform = "google"
            /\ ~FrameEmpty(raw[r].interest_over_time))
        => LET rk == analysis[r].rising_keywords
               frame == raw[r].interest_over_time
               n == Len(frame)
               col(k) == [label |-> frame[k].label,
                          score |-> mean_pct_change(frame[k].values)]
           IN  /\ Len(rk) = IF n < 5 THEN n ELSE 5
               /\ \A i, j \in 1 .. Len(rk) :
                    i < j => /\ ~NumGt(rk[j].score, rk[i].score)
                             /\ rk[i].score.k = "nan" => rk[j].score.k = "nan"
                             /\ rk[i].label # rk[j].label
               /\ \A i \in 1 .. Len(rk) : \E k \in 1 .. n : rk[i] = col(k)
               /\ \A k \in 1 .. n :
                    SortsBefore(col(k), rk[Len(rk)]) => col(k) \in Range(rk)
               /\ \A k \in 1 .. n : ~NumGt(col(k).score, rk[1].score)
               /\ analysis[r].insights = <<"Top rising: ", rk[1].label>>

C7_Witness ==
    \E r \in Reqs :
        /\ analysed[r] /\ req[r].platform = "google"
        /\ Len(raw[r].interest_over_time) > 5
        /\ raw[r].interest_over_time[1].values = <<4, 2, 1>>
        /\ raw[r].interest_over_time[2].values = <<1, 2, 1>>
        /\ analysis[r].rising_keywords[1].score = [k |-> "num", n |-> 1, d |-> 4]
        /\ analysis[r].insights = <<"Top rising: ", "isPartial">>

(* C8: an empty upstream result is a success with a sentinel analysis:     *)
(* zero Reddit posts give exactly {platform: reddit, raw: [], analysis:    *)
(* {insights: "No results found"}}, an empty Google series gives           *)
(* rising_keywords = {} and insights "Top rising: N/A"; neither gives an   *)
(* error response.                                                         *)
C8_EmptyIsSuccess ==
    \A r \in Reqs :
        /\ (Done(r) /\ req[r].platform = "reddit" /\ failure[r] = "none"
                /\ srcCalls[r] = 1 /\ raw[r] = <<>>)
           => response[r] =
                [status |-> 200,
                 body |-> [platform |-> "reddit", raw |-> <<>>,
                           analysis |-> [insights |-> <<"No results found">>]]]
        /\ (Done(r) /\ req[r].platform = "google" /\ analysed[r]
                /\ FrameEmpty(raw[r].interest_over_time))
           => /\ response[r].status = 200
              /\ response[r].body.analysis.rising_keywords = <<>>
              /\ response[r].body.analysis.insights = <<"Top rising: ", "N/A">>

\* the analysis a request handed out or was about to: its response's, or
\* the one it computed
HasAnalysis(r) == analysed[r] \/ Success(r)
AnalysisOf(r) == IF analysed[r] THEN analysis[r] ELSE response[r].body.analysis

(* C9: any two invocations on the same platform whose raw data are         *)
(* identical have identical analyses, whatever other requests ran before   *)
(* or between them.                                                        *)
C9_AnalysisDeterministic ==
    \A r1, r2 \in Reqs :
        (HasAnalysis(r1) /\ HasAnalysis(r2)
            /\ req[r1].platform = req[r2].platform /\ raw[r1] = raw[r2])
        => AnalysisOf(r1) = AnalysisOf(r2)

C9_Witness ==
    \E r1, r2 \in Reqs :
        /\ r1 # r2 /\ analysed[r1] /\ analysed[r2]
        /\ req[r1].platform = req[r2].platform /\ raw[r1] = raw[r2]
        /\ Done(r1) /\ inserts[r1] = 1 /\ trends # <<>>
        /\ pc[r2] = "insert"

\* the failures raised before the insert step
FailedEarly(r) == failure[r] \in {"config", "auth", "transport", "malformed"}

C10_RowsConsistent ==
    /\ \A i \in 1 .. Len(trends) :
          \E r \in Reqs :
              /\ analysed[r] /\ inserts[r] = 1 /\ ~FailedEarly(r)
              /\ RowOf(trends[i], r)
    /\ Len(trends) <= Cardinality({r \in Reqs : inserts[r] = 1})
    /\ \A r \in Reqs : FailedEarly(r) => inserts[r] = 0

C10_Step ==
    /\ Len(trends') \in {Len(trends), Len(trends) + 1}
    /\ SubSeq(trends', 1, Len(trends)) = trends
    /\ \A r \in Reqs :
          (pc[r] # pc'[r] /\ (FailedEarly(r)' \/ pc[r] # "insert")) => trends' = trends

(* C10: after any interleaving of requests the trends collection is        *)
(* append-only and consistent: every row was inserted by a request whose   *)
(* fetch and analysis completed and carries its platform, query, raw and   *)
(* analysis; a request failing authentication, fetch or analysis leaves    *)
(* the collection unchanged; no step changes or removes a row.             *)
C10_AppendOnlyConsistent == [](C10_RowsConsistent) /\ [][C10_Step]_vars

C10_Witness ==
    \E r, o \in Reqs :
        /\ Done(o) /\ failure[o] = "transport" /\ srcCalls[o] > 0
        /\ Success(r) /\ inserts[r] = 1
        /\ Len(trends) = 1 /\ RowOf(trends[1], r)

====
